---- MODULE Spec2Model ----
(***************************************************************************)
(* spldl: concurrent chunked download of a Splunk search job's results.    *)
(* DownloadSearchResults checks the job status, plans the chunks, runs a   *)
(* pool of chunkWorker goroutines feeding one eventChunkCollector through  *)
(* two buffered channels, and optionally deletes the job afterwards.       *)
(*                                                                         *)
(* Strings are sequences of tokens (a line's text, or "\n"); an error is a *)
(* record holding the fragments of its formatted message.                  *)
(***************************************************************************)
EXTENDS Integers, Sequences, FiniteSets, TLC

\* ------------------------------------------------------------ bounds
\* Largest worker count (MaxConnections) explored.
MaxWorkers == 3
\* Largest number of chunks a job of the concurrent specification plans.
MaxPages == 3
\* Largest number of chunks a job of the parsing specification plans.
ParsePages == 2
\* Largest number of rows or records in one upstream response.
MaxRows == 2

\* ------------------------------------------------- program constants
chunkSize == 10000
ResultLimit == 500000
ChanCap == 100

Sid == "1756172871.1180"
Workers == 1..MaxWorkers
OutputModes == {"raw", "csv", "ndjson", "json"}

VARIABLES
  maxConnections,  \* Downloader.maxConnections
  deleteWhenDone,  \* Downloader.deleteWhenDone
  outputMode,      \* Downloader.outputMode
  upstream,        \* what the results endpoint answers for each offset
  pc,              \* position of DownloadSearchResults / downloadJobChunks
  jobStatus,       \* the SearchJobContent returned by GetJobStatus
  totalChunks,     \* totalChunks of DownloadSearchResults
  result,          \* the error value DownloadSearchResults returned
  i,               \* loop counter of the dispatch loop
  offsetChan,      \* buffered contents of offsetChan
  offsetClosed,    \* close(offsetChan) has run
  chunkChan,       \* buffered contents of chunkChan
  chunkClosed,     \* close(chunkChan) has run
  wpc,             \* position of every chunkWorker goroutine
  woffset,         \* the offset a worker holds
  wdata,           \* the response a worker holds
  cpc,             \* position of the eventChunkCollector goroutine
  file,            \* the output file: "none", "open", "closed"
  output,          \* the bytes handed to the writer so far
  nextOffset,      \* nextOffset of the collector
  chunkBuf,        \* chunkBuf of the collector: offset -> data
  chunksWritten,   \* chunksWritten of the collector
  arrived,         \* history: the offsets the collector received, in order
  fetchCount,      \* history: GetJobResults calls issued per offset
  queries,         \* history: the query parameters sent to the endpoint
  failed,          \* history: offsets whose GetJobResults call failed
  enqueued,        \* history: the offsets sent on offsetChan, in order
  deleteCalls,     \* history: DeleteSearchJob requests issued
  deleteErr        \* history: a DeleteSearchJob request failed

vars == <<maxConnections, deleteWhenDone, outputMode, upstream, pc, jobStatus,
          totalChunks, result, i, offsetChan, offsetClosed, chunkChan,
          chunkClosed, wpc, woffset, wdata, cpc, file, output, nextOffset,
          chunkBuf, chunksWritten, arrived, fetchCount, queries, failed,
          enqueued, deleteCalls, deleteErr>>

cfgVars == <<maxConnections, deleteWhenDone, outputMode, upstream>>
mainVars == <<pc, jobStatus, totalChunks, result, i, deleteCalls, deleteErr>>
chanVars == <<offsetChan, offsetClosed, chunkChan, chunkClosed, enqueued>>
workerVars == <<wpc, woffset, wdata, fetchCount, queries, failed>>
collectorVars == <<cpc, file, output, nextOffset, chunkBuf, chunksWritten,
                   arrived>>

\* ------------------------------------------------------------ values
NoStatus == [IsDone |-> FALSE, IsFailed |-> FALSE, ResultCount |-> -1,
             DispatchState |-> "", DoneProgress |-> 0]
NoResult == [kind |-> "none"]
Nil == [kind |-> "nil"]
Error(msg) == [kind |-> "error", msg |-> msg]
Wrap(prefix, cause) == Error(<<prefix>> \o cause)
NoData == <<>>
EmptyBuf == [k \in {} |-> NoData]

\* ------------------------------------------------ the upstream service
\* The text of one result row / record of the chunk at an offset.
Row(offset) == "row" \o ToString(offset)
Rec(offset) == "{rec" \o ToString(offset) \o "}"

\* What the results endpoint answers for a chunk: csv repeats the header on
\* every chunk, json-like modes answer an envelope holding a results array.
Response(mode, offset) ==
  CASE mode = "raw" -> <<Row(offset), "\n">>
    [] mode = "csv" -> <<"header", "\n", Row(offset), "\n">>
    [] OTHER -> <<"{", "results", Rec(offset), "}">>

\* The answers of the parsing specification: bodies of 0..MaxRows rows or
\* records, with or without the last line terminator, and for the JSON
\* modes also an empty body, an empty object, a text that is no JSON and
\* a truncated envelope.
RowAt(offset, j) == Row(offset) \o "." \o ToString(j)
RecAt(offset, j, spaced) ==
  IF spaced THEN "{ rec" \o ToString(offset) \o "." \o ToString(j) \o " }"
  ELSE "{rec" \o ToString(offset) \o "." \o ToString(j) \o "}"

RECURSIVE Join(_, _)
Join(lines, terminated) ==
  IF lines = <<>> THEN <<>>
  ELSE IF Len(lines) = 1
       THEN IF terminated THEN <<lines[1], "\n">> ELSE <<lines[1]>>
       ELSE <<Head(lines), "\n">> \o Join(Tail(lines), terminated)

RawResponses(offset) ==
  {Join([j \in 1..k |-> RowAt(offset, j)], t) :
     k \in 0..MaxRows, t \in BOOLEAN}

CsvResponses(offset) ==
  {<<>>} \cup
  {Join(<<"header">> \o [j \in 1..k |-> RowAt(offset, j)], t) :
     k \in 0..MaxRows, t \in BOOLEAN}

JsonResponses(offset) ==
  {<<>>, <<"garbage">>, <<"{", "}">>,
   <<"{", "results", RecAt(offset, 1, FALSE)>>} \cup
  {<<"{", "results">> \o [j \in 1..k |-> RecAt(offset, j, sp)] \o <<"}">> :
     k \in 0..MaxRows, sp \in BOOLEAN}

UpstreamResponses(mode, offset) ==
  CASE mode = "raw" -> RawResponses(offset)
    [] mode = "csv" -> CsvResponses(offset)
    [] OTHER -> JsonResponses(offset)

\* --------------------------------------------------- response parsing
\* strings.IndexByte(response, '\n'): 0 when there is none, else its place.
RECURSIVE IndexNewline(_, _)
IndexNewline(s, k) ==
  IF k > Len(s) THEN 0
  ELSE IF s[k] = "\n" THEN k ELSE IndexNewline(s, k + 1)

\* Variant: a later chunk without a newline is all header and is dropped.
parseCSVResponseDropsLine(response, offset) ==
  IF offset > 0
  THEN IF IndexNewline(response, 1) # 0
       THEN SubSeq(response, IndexNewline(response, 1) + 1, Len(response))
       ELSE <<>>
  ELSE response

parseCSVResponse(response, offset) ==
  IF offset > 0 /\ IndexNewline(response, 1) # 0
  THEN SubSeq(response, IndexNewline(response, 1) + 1, Len(response))
  ELSE response

\* Tokens of a JSON text that are not a record of the results array.
Punctuation == {"{", "}", "results", "\n", "garbage"}

\* json.Unmarshal into SearchJobResults succeeds: the text is an object,
\* empty or holding a results array of records.
Unmarshals(response) ==
  /\ Len(response) >= 2
  /\ response[1] = "{"
  /\ response[Len(response)] = "}"
  /\ Len(response) > 2 =>
       /\ response[2] = "results"
       /\ \A k \in 3..(Len(response) - 1) : response[k] \notin Punctuation

\* unmarshalled.Results
Results(response) ==
  IF Len(response) > 2 THEN SubSeq(response, 3, Len(response) - 1) ELSE <<>>

\* json.Marshal(result): the record on one line, without insignificant
\* white space.
Marshal(record) ==
  IF /\ Len(record) >= 4
     /\ SubSeq(record, 1, 2) = "{ "
     /\ SubSeq(record, Len(record) - 1, Len(record)) = " }"
  THEN "{" \o SubSeq(record, 3, Len(record) - 2) \o "}"
  ELSE record

\* Variant: the records are written without a line terminator.
RECURSIVE MarshalLinesUnterminated(_)
MarshalLinesUnterminated(results) ==
  IF results = <<>> THEN <<>>
  ELSE <<Marshal(Head(results))>> \o MarshalLinesUnterminated(Tail(results))

RECURSIVE MarshalLines(_)
MarshalLines(results) ==
  IF results = <<>> THEN <<>>
  ELSE <<Marshal(Head(results)), "\n">> \o MarshalLines(Tail(results))

\* Variant: a text that does not unmarshal is returned as it is.
parseJSONResponseKeepsText(response) ==
  IF ~Unmarshals(response) THEN response
  ELSE MarshalLines(Results(response))

parseJSONResponse(response) ==
  IF ~Unmarshals(response) THEN <<>>
  ELSE MarshalLines(Results(response))

\* Variant: raw answers go through the header removal too.
parseResultsResponseRawStripped(response, mode, offset) ==
  CASE mode = "raw" -> parseCSVResponse(response, offset)
    [] mode = "csv" -> parseCSVResponse(response, offset)
    [] mode = "ndjson" -> parseJSONResponse(response)
    [] OTHER -> <<>>

\* Variant: an unknown output mode passes the answer through.
parseResultsResponseDefaultText(response, mode, offset) ==
  CASE mode = "raw" -> response
    [] mode = "csv" -> parseCSVResponse(response, offset)
    [] mode = "ndjson" -> parseJSONResponse(response)
    [] OTHER -> response

parseResultsResponse(response, mode, offset) ==
  CASE mode = "raw" -> response
    [] mode = "csv" -> parseCSVResponse(response, offset)
    [] mode = "ndjson" -> parseJSONResponse(response)
    [] OTHER -> <<>>

\* Variant: the chunk index is sent as the record offset.
QueryParamsChunkIndex(count, offset) == [count |-> count, offset |-> offset]

\* The count and offset parameters of a results request.
QueryParams(count, offset) == [count |-> count, offset |-> offset * count]

\* c.Get: the endpoint answers the records q.offset .. q.offset+q.count-1.
Get(q) == upstream[q.offset \div q.count]

\* The payload GetJobResults returns for a chunk when the request succeeds.
Payload(mode, offset) ==
  parseResultsResponse(Get(QueryParams(chunkSize, offset)), mode, offset)

\* ------------------------------------------------- the readiness gate
\* DoneProgress is held in units of 1/10000; "%.1f" of DoneProgress*100
\* prints the percentage rounded to the nearest tenth (the progress values
\* drawn are never halfway between two tenths).
FmtPct(progress) ==
  LET tenths == (progress + 5) \div 10
  IN ToString(tenths \div 10) \o "." \o ToString(tenths % 10)

\* Variant: the progress is printed as the fraction it is held as.
ErrNotCompleteFraction(st) ==
  Error(<<"job ", Sid, " is not complete (state: ", st.DispatchState,
          ", progress: ", FmtPct(st.DoneProgress \div 100), "%)">>)

ErrNotComplete(st) ==
  Error(<<"job ", Sid, " is not complete (state: ", st.DispatchState,
          ", progress: ", FmtPct(st.DoneProgress), "%)">>)

ErrJobFailed == Error(<<"job ", Sid, " has failed">>)

ErrResultLimit ==
  Error(<<"job ", Sid, " has more than ", "500000",
          " results. Split your search into multiple jobs.">>)

\* Variant: the IsFailed check is missing.
GateErrorNoFailedCheck(st) ==
  IF ~st.IsDone THEN ErrNotComplete(st)
  ELSE IF st.ResultCount > ResultLimit THEN ErrResultLimit
  ELSE Nil

\* Variant: the ceiling itself is refused.
GateErrorInclusive(st) ==
  IF ~st.IsDone THEN ErrNotComplete(st)
  ELSE IF st.IsFailed THEN ErrJobFailed
  ELSE IF st.ResultCount >= ResultLimit THEN ErrResultLimit
  ELSE Nil

\* Variant: the result limit is checked before IsFailed.
GateErrorLimitFirst(st) ==
  IF ~st.IsDone THEN ErrNotComplete(st)
  ELSE IF st.ResultCount > ResultLimit THEN ErrResultLimit
  ELSE IF st.IsFailed THEN ErrJobFailed
  ELSE Nil

\* Variant: the result count is not checked.
GateErrorNoLimit(st) ==
  IF ~st.IsDone THEN ErrNotComplete(st)
  ELSE IF st.IsFailed THEN ErrJobFailed
  ELSE Nil

\* Variant: IsFailed is checked before IsDone.
GateErrorFailedFirst(st) ==
  IF st.IsFailed THEN ErrJobFailed
  ELSE IF ~st.IsDone THEN ErrNotComplete(st)
  ELSE IF st.ResultCount > ResultLimit THEN ErrResultLimit
  ELSE Nil

\* The checks of DownloadSearchResults before any chunk is planned.
GateError(st) ==
  IF ~st.IsDone THEN ErrNotComplete(st)
  ELSE IF st.IsFailed THEN ErrJobFailed
  ELSE IF st.ResultCount > ResultLimit THEN ErrResultLimit
  ELSE Nil

\* Variant: the count is rounded up to whole chunks.
TotalChunksCeil(resultCount) == (resultCount + chunkSize - 1) \div chunkSize

TotalChunks(resultCount) == (resultCount \div chunkSize) + 1

\* ------------------------------------------------------ the collector
\* Variant: a written chunk stays in the buffer.
RECURSIVE DrainKeep(_, _, _, _)
DrainKeep(buf, next, out, written) ==
  IF next \in DOMAIN buf
  THEN DrainKeep(buf, next + 1, out \o buf[next], written + 1)
  ELSE [buf |-> buf, next |-> next, out |-> out, written |-> written]

\* Variant: the loop stops after one buffered chunk.
DrainOnce(buf, next, out, written) ==
  IF next \in DOMAIN buf
  THEN [buf |-> [k \in DOMAIN buf \ {next} |-> buf[k]], next |-> next + 1,
        out |-> out \o buf[next], written |-> written + 1]
  ELSE [buf |-> buf, next |-> next, out |-> out, written |-> written]

\* The loop that writes every buffered chunk that is now in order.
RECURSIVE Drain(_, _, _, _)
Drain(buf, next, out, written) ==
  IF next \in DOMAIN buf
  THEN Drain([k \in DOMAIN buf \ {next} |-> buf[k]], next + 1,
             out \o buf[next], written + 1)
  ELSE [buf |-> buf, next |-> next, out |-> out, written |-> written]

\* Variant: every chunk is written as it arrives.
CollectOnArrival(chunk, buf, next, out, written) ==
  [buf |-> buf, next |-> next + 1, out |-> out \o chunk.data,
   written |-> written + 1]

\* Variant: a chunk at or past the expected offset is written at once.
CollectAhead(chunk, buf, next, out, written) ==
  IF chunk.offset >= next
  THEN Drain(buf, chunk.offset + 1, out \o chunk.data, written + 1)
  ELSE Drain([k \in DOMAIN buf \cup {chunk.offset} |->
                IF k = chunk.offset THEN chunk.data ELSE buf[k]],
             next, out, written)

\* One iteration of the collector's receive loop on a chunk.
Collect(chunk, buf, next, out, written) ==
  IF chunk.offset = next
  THEN Drain(buf, next + 1, out \o chunk.data, written + 1)
  ELSE Drain([k \in DOMAIN buf \cup {chunk.offset} |->
                IF k = chunk.offset THEN chunk.data ELSE buf[k]],
             next, out, written)

\* ------------------------------------------------------------ inputs
Status(done, isFailed, count, state, progress) ==
  [IsDone |-> done, IsFailed |-> isFailed, ResultCount |-> count,
   DispatchState |-> state, DoneProgress |-> progress]

\* Job statuses of the concurrent specification: result counts that plan
\* 1..MaxPages chunks, and one above the ceiling.
SpecCounts == {k * chunkSize : k \in 0..(MaxPages - 1)} \cup {ResultLimit + 1}
SpecStatuses ==
  {Status(TRUE, f, c, IF f THEN "FAILED" ELSE "DONE", 10000) :
     f \in BOOLEAN, c \in SpecCounts}
  \cup {Status(FALSE, FALSE, c, "RUNNING", 5000) : c \in SpecCounts}

\* Job statuses of the gate specification: every combination of the flags
\* with the result counts around the chunk size and around the ceiling.
GateCounts == {0, 1, chunkSize - 1, chunkSize, chunkSize + 1, 2 * chunkSize,
               ResultLimit - 1, ResultLimit, ResultLimit + 1, 600000}
\* Job statuses of the parsing specification: accepted, 1..ParsePages chunks.
ParseStatuses ==
  {Status(TRUE, FALSE, k * chunkSize, "DONE", 10000) :
     k \in 0..(ParsePages - 1)}

\* Job statuses of the capacity specification: done jobs with the largest
\* result counts the gate accepts and the first ones it refuses.
LimitStatuses ==
  {Status(TRUE, FALSE, c, "DONE", 10000) :
     c \in {ResultLimit - 1, ResultLimit, ResultLimit + 1,
            ResultLimit + chunkSize}}

\* The chunks of the largest job among LimitStatuses.
LimitChunks == TotalChunks(ResultLimit + chunkSize)

GateStatuses ==
  {Status(d, f, c, s, p) :
     d \in BOOLEAN, f \in BOOLEAN, c \in GateCounts,
     s \in {"RUNNING", "DONE", "FAILED"}, p \in {0, 3333, 5000, 9999, 10000}}

\* -------------------------------------------------------------- Init
\* The state at the call of DownloadSearchResults.
InitRun ==
  /\ pc = "GetJobStatus"
  /\ jobStatus = NoStatus
  /\ totalChunks = 0
  /\ result = NoResult
  /\ i = 0
  /\ offsetChan = <<>>
  /\ offsetClosed = FALSE
  /\ chunkChan = <<>>
  /\ chunkClosed = FALSE
  /\ wpc = [w \in Workers |-> "none"]
  /\ woffset = [w \in Workers |-> -1]
  /\ wdata = [w \in Workers |-> NoData]
  /\ cpc = "none"
  /\ file = "none"
  /\ output = <<>>
  /\ nextOffset = 0
  /\ chunkBuf = EmptyBuf
  /\ chunksWritten = 0
  /\ arrived = <<>>
  /\ fetchCount = [o \in 0..(MaxPages + LimitChunks) |-> 0]
  /\ queries = {}
  /\ failed = {}
  /\ enqueued = <<>>
  /\ deleteCalls = 0
  /\ deleteErr = FALSE

Init ==
  /\ maxConnections \in 0..MaxWorkers
  /\ deleteWhenDone \in BOOLEAN
  /\ outputMode \in OutputModes
  /\ upstream = [o \in 0..(MaxPages - 1) |-> Response(outputMode, o)]
  /\ InitRun

\* One worker, no cleanup, and every combination of upstream answers for
\* the chunks of a job of 1..ParsePages chunks.
InitParse ==
  /\ maxConnections = 1
  /\ deleteWhenDone = FALSE
  /\ outputMode \in OutputModes
  /\ upstream \in
       {f \in [0..(ParsePages - 1) ->
                UNION {UpstreamResponses(outputMode, o) :
                         o \in 0..(ParsePages - 1)}] :
          \A o \in 0..(ParsePages - 1) :
            f[o] \in UpstreamResponses(outputMode, o)}
  /\ InitRun

\* A job at the result limit: no worker or one worker, no cleanup, raw
\* output.
InitLimit ==
  /\ maxConnections \in {0, 1}
  /\ deleteWhenDone = FALSE
  /\ outputMode = "raw"
  /\ upstream = [o \in 0..(LimitChunks - 1) |-> Response(outputMode, o)]
  /\ InitRun

\* A worker count of zero or below.
InitIdle ==
  /\ maxConnections \in {-1, 0}
  /\ deleteWhenDone \in BOOLEAN
  /\ outputMode \in OutputModes
  /\ upstream = [o \in 0..(MaxPages - 1) |-> Response(outputMode, o)]
  /\ InitRun

\* ------------------------------------------- DownloadSearchResults
\* d.client.GetJobStatus(d.sid) answers a status.
GetJobStatus(statuses) ==
  /\ pc = "GetJobStatus"
  /\ \E st \in statuses : jobStatus' = st
  /\ pc' = "Gate"
  /\ UNCHANGED <<cfgVars, totalChunks, result, i,
                 deleteCalls, deleteErr,
                 chanVars,
                 workerVars, collectorVars>>

\* d.client.GetJobStatus(d.sid) fails.
GetJobStatusErr ==
  /\ pc = "GetJobStatus"
  /\ result' = Wrap("failed to get job status: ", <<"transport error">>)
  /\ pc' = "Done"
  /\ UNCHANGED <<cfgVars, jobStatus, totalChunks, i, deleteCalls, deleteErr,
                 chanVars,
                 workerVars, collectorVars>>

\* The three checks on the status, then the chunk plan.
ReadinessGate ==
  /\ pc = "Gate"
  /\ IF GateError(jobStatus) # Nil
     THEN /\ result' = GateError(jobStatus)
          /\ pc' = "Done"
          /\ UNCHANGED totalChunks
     ELSE /\ totalChunks' = TotalChunks(jobStatus.ResultCount)
          /\ pc' = "downloadJobChunks"
          /\ UNCHANGED result
  /\ UNCHANGED <<cfgVars, jobStatus, i, deleteCalls, deleteErr,
                 chanVars, workerVars,
                 collectorVars>>

\* ----------------------------------------------- downloadJobChunks
\* Variant: a count below one still starts a worker.
StartedAtLeastOne == {w \in Workers : w <= maxConnections \/ w = 1}

\* Variant: one worker more than configured.
StartedOneMore == {w \in Workers : w <= maxConnections + 1}

\* The workers d.maxConnections starts.
Started == {w \in Workers : w <= maxConnections}

\* make both channels, start the workers and the collector.
StartGoroutines ==
  /\ pc = "downloadJobChunks"
  /\ wpc' = [w \in Workers |-> IF w \in Started THEN "recv" ELSE "none"]
  /\ cpc' = "create"
  /\ i' = 0
  /\ pc' = "Dispatch"
  /\ UNCHANGED <<cfgVars, jobStatus, totalChunks, result,
                 deleteCalls, deleteErr,
                 chanVars, woffset, wdata, fetchCount, queries, failed,
                 file, output,
                 nextOffset, chunkBuf, chunksWritten, arrived>>

\* Variant: the dispatch loop runs one offset too far.
DispatchInclusive ==
  /\ pc = "Dispatch"
  /\ i <= totalChunks
  /\ Len(offsetChan) < ChanCap
  /\ offsetChan' = Append(offsetChan, i)
  /\ enqueued' = Append(enqueued, i)
  /\ i' = i + 1
  /\ UNCHANGED <<cfgVars, pc, jobStatus, totalChunks, result,
                 deleteCalls, deleteErr,
                 offsetClosed, chunkChan, chunkClosed, workerVars,
                 collectorVars>>

\* offsetChan <- i
Dispatch ==
  /\ pc = "Dispatch"
  /\ i < totalChunks
  /\ Len(offsetChan) < ChanCap
  /\ offsetChan' = Append(offsetChan, i)
  /\ enqueued' = Append(enqueued, i)
  /\ i' = i + 1
  /\ UNCHANGED <<cfgVars, pc, jobStatus, totalChunks, result,
                 deleteCalls, deleteErr,
                 offsetClosed, chunkChan, chunkClosed, workerVars,
                 collectorVars>>

\* close(offsetChan)
CloseOffsetChan ==
  /\ pc = "Dispatch"
  /\ ~(i < totalChunks)
  /\ offsetClosed' = TRUE
  /\ pc' = "WaitWorkers"
  /\ UNCHANGED <<cfgVars, jobStatus, totalChunks, result, i,
                 deleteCalls, deleteErr,
                 offsetChan, chunkChan, chunkClosed, enqueued, workerVars,
                 collectorVars>>

\* Variant: chunkChan is never closed.
WaitWorkersNoClose ==
  /\ pc = "WaitWorkers"
  /\ \A w \in Started : wpc[w] = "exit"
  /\ pc' = "WaitCollector"
  /\ UNCHANGED <<cfgVars, jobStatus, totalChunks, result, i,
                 deleteCalls, deleteErr, chanVars, workerVars,
                 collectorVars>>

\* Variant: chunkChan is closed without waiting for the workers.
WaitWorkersNoWait ==
  /\ pc = "WaitWorkers"
  /\ chunkClosed' = TRUE
  /\ pc' = "WaitCollector"
  /\ UNCHANGED <<cfgVars, jobStatus, totalChunks, result, i,
                 deleteCalls, deleteErr,
                 offsetChan, offsetClosed, chunkChan, enqueued, workerVars,
                 collectorVars>>

\* workerWg.Wait() returns; close(chunkChan)
WaitWorkers ==
  /\ pc = "WaitWorkers"
  /\ \A w \in Started : wpc[w] = "exit"
  /\ chunkClosed' = TRUE
  /\ pc' = "WaitCollector"
  /\ UNCHANGED <<cfgVars, jobStatus, totalChunks, result, i,
                 deleteCalls, deleteErr,
                 offsetChan, offsetClosed, chunkChan, enqueued, workerVars,
                 collectorVars>>

\* Variant: downloadJobChunks returns without waiting for the collector.
WaitCollectorNoWait ==
  /\ pc = "WaitCollector"
  /\ IF deleteWhenDone
     THEN pc' = "Delete" /\ UNCHANGED result
     ELSE pc' = "Done" /\ result' = Nil
  /\ UNCHANGED <<cfgVars, jobStatus, totalChunks, i, deleteCalls, deleteErr,
                 chanVars, workerVars, collectorVars>>

\* Variant: downloadJobChunks reports the chunks that were not fetched.
WaitCollectorReportsFailure ==
  /\ pc = "WaitCollector"
  /\ cpc = "done"
  /\ IF failed # {}
     THEN /\ pc' = "Done"
          /\ result' = Wrap("failed to download job chunks: ",
                            <<"missing chunks">>)
     ELSE IF deleteWhenDone
          THEN pc' = "Delete" /\ UNCHANGED result
          ELSE pc' = "Done" /\ result' = Nil
  /\ UNCHANGED <<cfgVars, jobStatus, totalChunks, i, deleteCalls, deleteErr,
                 chanVars,
                 workerVars, collectorVars>>

\* collectorWg.Wait() returns; downloadJobChunks returns nil, and
\* DownloadSearchResults goes on to the cleanup or returns nil.
WaitCollector ==
  /\ pc = "WaitCollector"
  /\ cpc = "done"
  /\ IF deleteWhenDone
     THEN pc' = "Delete" /\ UNCHANGED result
     ELSE pc' = "Done" /\ result' = Nil
  /\ UNCHANGED <<cfgVars, jobStatus, totalChunks, i, deleteCalls, deleteErr,
                 chanVars,
                 workerVars, collectorVars>>

\* d.client.DeleteSearchJob(d.sid) succeeds.
DeleteSearchJob ==
  /\ pc = "Delete"
  /\ deleteCalls' = deleteCalls + 1
  /\ result' = Nil
  /\ UNCHANGED deleteErr
  /\ pc' = "Done"
  /\ UNCHANGED <<cfgVars, jobStatus, totalChunks, i, chanVars, workerVars,
                 collectorVars>>

\* What DownloadSearchResults returns when DeleteSearchJob failed.
DeleteFailure == Wrap("failed to delete job: ", <<"transport error">>)

\* d.client.DeleteSearchJob(d.sid) fails.
DeleteSearchJobErr ==
  /\ pc = "Delete"
  /\ deleteCalls' = deleteCalls + 1
  /\ deleteErr' = TRUE
  /\ result' = DeleteFailure
  /\ pc' = "Done"
  /\ UNCHANGED <<cfgVars, jobStatus, totalChunks, i, chanVars, workerVars,
                 collectorVars>>

\* ------------------------------------------------------ chunkWorker
\* for offset := range offsetChan: an offset is received.
WorkerReceive(w) ==
  /\ wpc[w] = "recv"
  /\ offsetChan # <<>>
  /\ woffset' = [woffset EXCEPT ![w] = Head(offsetChan)]
  /\ offsetChan' = Tail(offsetChan)
  /\ wpc' = [wpc EXCEPT ![w] = "fetch"]
  /\ fetchCount' = [fetchCount EXCEPT ![Head(offsetChan)] = @ + 1]
  /\ UNCHANGED <<cfgVars, mainVars, offsetClosed, chunkChan, chunkClosed,
                 queries,
                 enqueued, wdata, failed, collectorVars>>

\* for offset := range offsetChan: the channel is closed and drained.
WorkerExit(w) ==
  /\ wpc[w] = "recv"
  /\ offsetChan = <<>>
  /\ offsetClosed
  /\ wpc' = [wpc EXCEPT ![w] = "exit"]
  /\ UNCHANGED <<cfgVars, mainVars, chanVars, woffset, wdata, fetchCount,
                 queries,
                 failed, collectorVars>>

\* getEventChunk: GetJobResults answers the parsed chunk.
GetJobResults(w) ==
  /\ wpc[w] = "fetch"
  /\ wdata' = [wdata EXCEPT ![w] = Payload(outputMode, woffset[w])]
  /\ wpc' = [wpc EXCEPT ![w] = "send"]
  /\ queries' = queries \cup {QueryParams(chunkSize, woffset[w])}
  /\ UNCHANGED <<cfgVars, mainVars, chanVars, woffset, fetchCount, failed,
                 collectorVars>>

\* Variant: a failed fetch ends the worker.
GetJobResultsErrExit(w) ==
  /\ wpc[w] = "fetch"
  /\ failed' = failed \cup {woffset[w]}
  /\ woffset' = [woffset EXCEPT ![w] = -1]
  /\ wpc' = [wpc EXCEPT ![w] = "exit"]
  /\ queries' = queries \cup {QueryParams(chunkSize, woffset[w])}
  /\ UNCHANGED <<cfgVars, mainVars, chanVars, wdata, fetchCount,
                 collectorVars>>

\* getEventChunk: GetJobResults fails; the error is logged, nothing is sent.
GetJobResultsErr(w) ==
  /\ wpc[w] = "fetch"
  /\ failed' = failed \cup {woffset[w]}
  /\ woffset' = [woffset EXCEPT ![w] = -1]
  /\ wpc' = [wpc EXCEPT ![w] = "recv"]
  /\ queries' = queries \cup {QueryParams(chunkSize, woffset[w])}
  /\ UNCHANGED <<cfgVars, mainVars, chanVars, wdata, fetchCount,
                 collectorVars>>

\* getEventChunk: chunkChan <- eventChunk{offset, data}
WorkerSend(w) ==
  /\ wpc[w] = "send"
  /\ Len(chunkChan) < ChanCap
  /\ chunkChan' = Append(chunkChan, [offset |-> woffset[w], data |-> wdata[w]])
  /\ woffset' = [woffset EXCEPT ![w] = -1]
  /\ wdata' = [wdata EXCEPT ![w] = NoData]
  /\ wpc' = [wpc EXCEPT ![w] = "recv"]
  /\ UNCHANGED <<cfgVars, mainVars, offsetChan, offsetClosed, chunkClosed,
                 enqueued, fetchCount, queries, failed, collectorVars>>

\* ----------------------------------------------- eventChunkCollector
\* os.Create(d.filename) succeeds; the writer is set up.
CollectorCreate ==
  /\ cpc = "create"
  /\ file' = "open"
  /\ cpc' = "recv"
  /\ UNCHANGED <<cfgVars, mainVars, chanVars, workerVars, output, nextOffset,
                 chunkBuf, chunksWritten, arrived>>

\* Variant: the collector goes on to its receive loop without a file.
CollectorCreateErrReceives ==
  /\ cpc = "create"
  /\ cpc' = "recv"
  /\ UNCHANGED <<cfgVars, mainVars, chanVars, workerVars, file, output,
                 nextOffset, chunkBuf, chunksWritten, arrived>>

\* os.Create(d.filename) fails; the collector returns at once.
CollectorCreateErr ==
  /\ cpc = "create"
  /\ cpc' = "done"
  /\ UNCHANGED <<cfgVars, mainVars, chanVars, workerVars, file, output,
                 nextOffset, chunkBuf, chunksWritten, arrived>>

\* for chunk := range chunkChannel: one chunk is received and handled.
CollectorReceive ==
  /\ cpc = "recv"
  /\ chunkChan # <<>>
  /\ LET r == Collect(Head(chunkChan), chunkBuf, nextOffset, output,
                      chunksWritten)
     IN /\ chunkBuf' = r.buf
        /\ nextOffset' = r.next
        /\ output' = r.out
        /\ chunksWritten' = r.written
  /\ chunkChan' = Tail(chunkChan)
  /\ arrived' = Append(arrived, Head(chunkChan).offset)
  /\ UNCHANGED <<cfgVars, mainVars, offsetChan, offsetClosed, chunkClosed,
                 enqueued, workerVars, cpc, file>>

\* Variant: the lowest chunk left in the buffer is written before closing.
CollectorFinishFlushBuffer ==
  /\ cpc = "recv"
  /\ chunkChan = <<>>
  /\ chunkClosed
  /\ output' = IF DOMAIN chunkBuf = {} THEN output
               ELSE output \o chunkBuf[CHOOSE m \in DOMAIN chunkBuf :
                                         \A n \in DOMAIN chunkBuf : m <= n]
  /\ file' = "closed"
  /\ cpc' = "done"
  /\ UNCHANGED <<cfgVars, mainVars, chanVars, workerVars, nextOffset,
                 chunkBuf, chunksWritten, arrived>>

\* The channel is closed and drained: the deferred Flush and Close run.
CollectorFinish ==
  /\ cpc = "recv"
  /\ chunkChan = <<>>
  /\ chunkClosed
  /\ file' = "closed"
  /\ cpc' = "done"
  /\ UNCHANGED <<cfgVars, mainVars, chanVars, workerVars, output, nextOffset,
                 chunkBuf, chunksWritten, arrived>>

\* ------------------------------------------------------------- specs
Next ==
  \/ GetJobStatus(SpecStatuses)
  \/ GetJobStatusErr
  \/ ReadinessGate
  \/ StartGoroutines
  \/ Dispatch
  \/ CloseOffsetChan
  \/ WaitWorkers
  \/ WaitCollector
  \/ DeleteSearchJob
  \/ DeleteSearchJobErr
  \/ \E w \in Workers :
       \/ WorkerReceive(w)
       \/ WorkerExit(w)
       \/ GetJobResults(w)
       \/ GetJobResultsErr(w)
       \/ WorkerSend(w)
  \/ CollectorCreate
  \/ CollectorCreateErr
  \/ CollectorReceive
  \/ CollectorFinish

Spec == Init /\ [][Next]_vars

\* The status fetch, the gate and the chunk plan alone, over every
\* combination of the status fields.
NextGate ==
  \/ GetJobStatus(GateStatuses)
  \/ GetJobStatusErr
  \/ ReadinessGate

SpecGate == Init /\ [][NextGate]_vars

\* The download of a job of a few chunks by one worker, over every
\* combination of upstream answers.
NextParse ==
  \/ GetJobStatus(ParseStatuses)
  \/ GetJobStatusErr
  \/ ReadinessGate
  \/ StartGoroutines
  \/ Dispatch
  \/ CloseOffsetChan
  \/ WaitWorkers
  \/ WaitCollector
  \/ \E w \in Workers :
       \/ WorkerReceive(w)
       \/ WorkerExit(w)
       \/ GetJobResults(w)
       \/ GetJobResultsErr(w)
       \/ WorkerSend(w)
  \/ CollectorCreate
  \/ CollectorCreateErr
  \/ CollectorReceive
  \/ CollectorFinish

SpecParse == InitParse /\ [][NextParse]_vars

\* The download of a job at the result limit when every fetch succeeds,
\* which is when the most chunks are sent on chunkChan.
NextLimit ==
  \/ GetJobStatus(LimitStatuses)
  \/ ReadinessGate
  \/ StartGoroutines
  \/ Dispatch
  \/ CloseOffsetChan
  \/ WaitWorkers
  \/ WaitCollector
  \/ \E w \in Workers :
       \/ WorkerReceive(w)
       \/ WorkerExit(w)
       \/ GetJobResults(w)
       \/ WorkerSend(w)
  \/ CollectorCreate
  \/ CollectorCreateErr
  \/ CollectorReceive
  \/ CollectorFinish

SpecLimit == InitLimit /\ [][NextLimit]_vars

\* The download with a worker count of zero or below: the loop that starts
\* the workers has no iteration, so there are the caller and the collector
\* only, each of them scheduled as long as it can run.
NextIdle ==
  \/ GetJobStatus(SpecStatuses)
  \/ GetJobStatusErr
  \/ ReadinessGate
  \/ StartGoroutines
  \/ Dispatch
  \/ CloseOffsetChan
  \/ WaitWorkers
  \/ WaitCollector
  \/ DeleteSearchJob
  \/ DeleteSearchJobErr
  \/ CollectorCreate
  \/ CollectorCreateErr
  \/ CollectorFinish

SpecIdle == InitIdle /\ [][NextIdle]_vars /\ WF_vars(NextIdle)

\* The download under a scheduler that keeps running some goroutine that
\* can run, every call to the service returning.
FairSpec == Init /\ [][Next]_vars /\ WF_vars(Next)

\* ============================================================ claims
Range(s) == {s[k] : k \in 1..Len(s)}

\* DownloadSearchResults passed the gate and downloadJobChunks has returned.
Returned == totalChunks > 0 /\ pc \in {"Delete", "Done"}

\* The payloads of chunks 0 .. n-1 one after the other.
RECURSIVE InOrder(_, _)
InOrder(mode, n) ==
  IF n = 0 THEN <<>> ELSE InOrder(mode, n - 1) \o Payload(mode, n - 1)

\* C1: when every fetch succeeded, with one worker or more and the output
\* file created, the output at the return of the download is the payloads
\* of chunks 0 .. N-1 in ascending order, whatever order they arrived in.
C1_OrderedOutput ==
  (Returned /\ maxConnections >= 1 /\ failed = {} /\ file = "closed")
    => output = InOrder(outputMode, totalChunks)

\* The chunks arrived in descending order and the output is complete.
C1_Witness ==
  /\ Returned /\ failed = {} /\ file = "closed"
  /\ totalChunks = 3 /\ outputMode = "csv"
  /\ arrived = <<2, 1, 0>>
  /\ output = <<"header", "\n", "row0", "\n", "row1", "\n", "row2", "\n">>

\* C2: every offset in [0, N) is received by a worker and fetched exactly
\* once, none outside [0, N) is; the offsets are sent in ascending order
\* and offsetChan is closed only after all N were sent.
C2_EachOffsetOnce ==
  /\ \A o \in DOMAIN fetchCount :
       /\ fetchCount[o] <= 1
       /\ fetchCount[o] = 1 => o < totalChunks
  /\ \A w \in Workers : wpc[w] \in {"fetch", "send"} =>
       /\ woffset[w] \in 0..(totalChunks - 1)
       /\ \A v \in Workers \ {w} : woffset[v] # woffset[w]
  /\ \A k \in 1..Len(enqueued) : enqueued[k] = k - 1
  /\ offsetClosed => Len(enqueued) = totalChunks
  /\ (Returned /\ maxConnections >= 1) =>
       \A o \in 0..(totalChunks - 1) : fetchCount[o] = 1

\* Three chunks were shared out among several workers, each fetched once.
C2_Witness ==
  /\ Returned /\ maxConnections >= 2 /\ totalChunks = 3
  /\ \A o \in 0..2 : fetchCount[o] = 1
  /\ fetchCount[3] = 0
  /\ arrived = <<1, 0, 2>>

\* An error that reports the incomplete reassembly and names an offset.
IsReassemblyIncomplete(r, k) ==
  /\ r.kind = "error"
  /\ "ReassemblyIncomplete" \in Range(r.msg)
  /\ ToString(k) \in Range(r.msg)

\* C3: if the fetch of some offset k failed, DownloadSearchResults reports
\* a ReassemblyIncomplete error naming k instead of returning success.
C3_ReassemblyReported ==
  (pc = "Done" /\ totalChunks > 0) =>
    \A k \in failed : IsReassemblyIncomplete(result, k)

\* C4: for a status that passes the gate the plan holds
\* floor(ResultCount / 10000) + 1 chunks, at least 1: the count lies in
\* [(totalChunks - 1) * 10000, totalChunks * 10000).
C4_ChunkPlan ==
  pc = "downloadJobChunks" =>
    /\ totalChunks >= 1
    /\ (totalChunks - 1) * 10000 <= jobStatus.ResultCount
    /\ jobStatus.ResultCount < totalChunks * 10000

\* A result count that is an exact multiple of the chunk size plans one
\* extra trailing chunk.
C4_Witness ==
  /\ pc = "downloadJobChunks"
  /\ jobStatus.ResultCount = 20000
  /\ totalChunks = 3

\* The status is one the gate refuses.
Refused(st) == ~st.IsDone \/ st.IsFailed \/ st.ResultCount > 500000

\* C5: with a status that is not done, failed or above 500000 results the
\* download returns an error and nothing was started: no worker, no
\* collector, no offset sent, no results request, no output file.
C5_GateAbortsBeforeFetch ==
  (jobStatus # NoStatus /\ Refused(jobStatus)) =>
    /\ pc \in {"Gate", "Done"}
    /\ pc = "Done" => result.kind = "error"
    /\ \A o \in DOMAIN fetchCount : fetchCount[o] = 0
    /\ \A w \in Workers : wpc[w] = "none"
    /\ cpc = "none" /\ file = "none" /\ output = <<>>
    /\ enqueued = <<>> /\ arrived = <<>>
    /\ deleteCalls = 0

\* A failed job was refused with nothing started.
C5_Witness ==
  /\ pc = "Done" /\ jobStatus.IsDone /\ jobStatus.IsFailed
  /\ result.kind = "error"
  /\ cpc = "none" /\ file = "none"

\* C6: a done, non-failed job of exactly 500000 results passes the gate;
\* one of 500001 or more is refused with an error whose message states
\* the ceiling 500000 and says to split the search.
C6_ResultLimit ==
  (pc # "Gate" /\ jobStatus.IsDone /\ ~jobStatus.IsFailed) =>
    /\ jobStatus.ResultCount = 500000 =>
         pc = "downloadJobChunks" /\ result = NoResult
    /\ jobStatus.ResultCount >= 500001 =>
         /\ pc = "Done"
         /\ result.kind = "error"
         /\ "500000" \in Range(result.msg)
         /\ " results. Split your search into multiple jobs." \in
              Range(result.msg)

\* The job of exactly 500000 results was accepted, with 51 chunks planned.
C6_Witness ==
  /\ pc = "downloadJobChunks"
  /\ jobStatus.ResultCount = 500000
  /\ totalChunks = 51

\* The percentage, to one decimal, nearest to a progress in 1/10000s.
Percentages(progress) ==
  {ToString(whole) \o "." \o ToString(tenth) :
     <<whole, tenth>> \in
       {pt \in (0..100) \X (0..9) :
          /\ (pt[1] * 10 + pt[2]) * 10 - progress <= 5
          /\ progress - (pt[1] * 10 + pt[2]) * 10 < 5}}

\* C7: with a status that is not done the download fails with the
\* not-complete error, whose message holds the dispatch state and the
\* done-progress as a percentage.
C7_NotComplete ==
  (pc # "Gate" /\ jobStatus # NoStatus /\ ~jobStatus.IsDone) =>
    /\ pc = "Done"
    /\ result.kind = "error"
    /\ " is not complete (state: " \in Range(result.msg)
    /\ jobStatus.DispatchState \in Range(result.msg)
    /\ Percentages(jobStatus.DoneProgress) \cap Range(result.msg) # {}

\* A running job at progress 0.3333 was refused as 33.3% complete.
C7_Witness ==
  /\ pc = "Done" /\ ~jobStatus.IsDone
  /\ jobStatus.DispatchState = "RUNNING"
  /\ jobStatus.DoneProgress = 3333
  /\ result.msg = <<"job ", Sid, " is not complete (state: ", "RUNNING",
                    ", progress: ", "33.3", "%)">>

\* The error of a failed job.
IsJobFailed(r) == r.kind = "error" /\ " has failed" \in Range(r.msg)

\* C8 as stated: whenever the status has IsFailed the download fails with
\* the job-failed error.
C8_FailedAlwaysJobFailed ==
  (pc # "Gate" /\ jobStatus.IsFailed) => pc = "Done" /\ IsJobFailed(result)

\* C8 amended: whenever the status is done and has IsFailed the download
\* fails with the job-failed error; a failed status that is not done fails
\* with the not-complete error.
C8_DoneFailedJobFailed ==
  (pc # "Gate" /\ jobStatus.IsFailed) =>
    /\ pc = "Done"
    /\ jobStatus.IsDone => IsJobFailed(result)
    /\ ~jobStatus.IsDone =>
         /\ ~IsJobFailed(result)
         /\ " is not complete (state: " \in Range(result.msg)

\* A done, failed job was refused with the job-failed error.
C8_Witness ==
  /\ pc = "Done" /\ jobStatus.IsDone /\ jobStatus.IsFailed
  /\ result = Error(<<"job ", Sid, " has failed">>)

\* C9: when the delete request fails after the download completed, the
\* download is still reported as successful.
C9_DeleteFailureKeepsSuccess ==
  (pc = "Done" /\ deleteErr) => result = Nil

\* C10: a delete request is issued only with deleteWhenDone set, at most
\* once, never after a refusal by the gate, and only once every worker has
\* exited and the collector has finished with the output closed.
C10_DeleteAfterDownload ==
  /\ deleteCalls <= 1
  /\ ~deleteWhenDone => deleteCalls = 0 /\ pc # "Delete"
  /\ (deleteCalls = 1 \/ pc = "Delete") =>
       /\ deleteWhenDone
       /\ ~Refused(jobStatus)
       /\ offsetClosed /\ chunkClosed
       /\ \A w \in Workers : wpc[w] \in {"none", "exit"}
       /\ cpc = "done"
       /\ file # "open"

\* The job was deleted after a download that wrote and closed the output.
C10_Witness ==
  /\ pc = "Done" /\ deleteCalls = 1 /\ ~deleteErr
  /\ file = "closed" /\ chunksWritten = 3

\* downloadJobChunks has wound down: both channels closed, every started
\* worker out of its loop, the collector stopped.
WoundDown ==
  /\ offsetClosed /\ chunkClosed
  /\ \A w \in Workers : wpc[w] \in {"none", "exit"}
  /\ cpc = "done"
  /\ maxConnections >= 1 => offsetChan = <<>>

\* C11: every run of DownloadSearchResults comes to its return, whatever
\* the chunk count, the worker count and the fetches that fail; a run that
\* passed the gate returns with downloadJobChunks wound down, so nothing is
\* left waiting on a channel.
C11_Terminates == <>(pc = "Done" /\ (totalChunks > 0 => WoundDown))

\* A run with three chunks, the fetch of offset 1 failed, came to its
\* return with everything wound down.
C11_Witness ==
  /\ pc = "Done" /\ totalChunks = 3 /\ failed = {1} /\ WoundDown
  /\ maxConnections = 2

\* A text without its first line: the part after the first "\n", nothing
\* when the text is one line without a terminator.
RECURSIVE DropFirstLine(_)
DropFirstLine(s) ==
  IF s = <<>> THEN <<>>
  ELSE IF Head(s) = "\n" THEN Tail(s) ELSE DropFirstLine(Tail(s))

\* How many times a token occurs in a text.
RECURSIVE Count(_, _)
Count(s, tok) ==
  IF s = <<>> THEN 0
  ELSE (IF Head(s) = tok THEN 1 ELSE 0) + Count(Tail(s), tok)

\* C12: in csv mode the contribution of chunk 0 is the upstream answer
\* unchanged and the contribution of every later chunk is the upstream
\* answer without its first line, so the output holds the header at most
\* once, at its start.
C12_CsvHeaderOnce ==
  outputMode = "csv" =>
    /\ \A w \in Workers : wpc[w] = "send" =>
         wdata[w] = IF woffset[w] = 0 THEN upstream[0]
                    ELSE DropFirstLine(upstream[woffset[w]])
    /\ Count(output, "header") =
         IF output # <<>> /\ output[1] = "header" THEN 1 ELSE 0

\* The answers of chunks 0 .. n-1 as the service gave them.
RECURSIVE UpstreamInOrder(_)
UpstreamInOrder(n) ==
  IF n = 0 THEN <<>> ELSE UpstreamInOrder(n - 1) \o upstream[n - 1]

\* C13: in raw mode a worker forwards exactly the upstream answer, and the
\* output of a download without a failed fetch is the upstream answers of
\* chunks 0 .. N-1 one after the other.
C13_RawUnchanged ==
  outputMode = "raw" =>
    /\ \A w \in Workers : wpc[w] = "send" =>
         wdata[w] = upstream[woffset[w]]
    /\ (Returned /\ failed = {} /\ file = "closed") =>
         output = UpstreamInOrder(totalChunks)

\* Two raw chunks, the second one without a final line terminator, were
\* written as they came.
C13_Witness ==
  /\ outputMode = "raw" /\ Returned /\ failed = {} /\ file = "closed"
  /\ totalChunks = 2
  /\ output = <<"row0.1", "\n", "row0.2", "\n", "row1.1", "\n", "row1.2">>

\* The text is an envelope whose results array holds k records.
IsEnvelope(r, k) ==
  /\ Len(r) = k + 3
  /\ r[1] = "{" /\ r[2] = "results" /\ r[Len(r)] = "}"
  /\ \A j \in 1..k : r[2 + j] \notin {"{", "}", "results", "\n", "garbage"}

\* C14: in ndjson mode the contribution of a chunk whose envelope holds k
\* records is k lines, the j-th being the j-th record in compact form
\* followed by a newline; every line of the output is one compact record.
C14_NdjsonLines ==
  outputMode = "ndjson" =>
    /\ \A w \in Workers : \A k \in 0..(MaxRows + 1) :
         (wpc[w] = "send" /\ IsEnvelope(upstream[woffset[w]], k)) =>
           /\ Len(wdata[w]) = 2 * k
           /\ \A j \in 1..k :
                /\ wdata[w][2 * j - 1] = RecAt(woffset[w], j, FALSE)
                /\ wdata[w][2 * j] = "\n"
    /\ Len(output) % 2 = 0
    /\ \A n \in 1..Len(output) :
         IF n % 2 = 0 THEN output[n] = "\n"
         ELSE \E o \in 0..(ParsePages - 1), j \in 1..MaxRows :
                output[n] = RecAt(o, j, FALSE)

\* An envelope of two records written with white space was turned into
\* two compact lines.
C14_Witness ==
  /\ outputMode = "ndjson"
  /\ upstream[1] = <<"{", "results", "{ rec1.1 }", "{ rec1.2 }", "}">>
  /\ \E w \in Workers :
       /\ wpc[w] = "send" /\ woffset[w] = 1
       /\ wdata[w] = <<"{rec1.1}", "\n", "{rec1.2}", "\n">>

\* C15: at every state of the collector the output is the payloads of
\* chunks 0 .. nextOffset-1 in ascending order, nextOffset counts the chunks
\* written, and nothing at or below nextOffset waits in the buffer.
C15_GaplessPrefix ==
  /\ output = InOrder(outputMode, nextOffset)
  /\ chunksWritten = nextOffset
  /\ nextOffset <= totalChunks
  /\ \A k \in DOMAIN chunkBuf : k > nextOffset

\* Chunk 1 came first and was held back until chunk 0 was written; chunk 2
\* is still to come.
C15_Witness ==
  /\ cpc = "recv" /\ totalChunks = 3 /\ outputMode = "raw"
  /\ arrived = <<1, 0>> /\ nextOffset = 2
  /\ output = <<"row0", "\n", "row1", "\n">>

\* The offsets whose chunk was sent on chunkChan.
Sent == {o \in 0..(totalChunks - 1) : fetchCount[o] = 1 /\ o \notin failed}

\* C16: chunkChan is closed only once every worker has left its loop, so
\* no worker sends after the close; the collector is awaited only after
\* the close, and downloadJobChunks returns only after the collector has
\* stopped having received every chunk that was sent (output file created).
C16_CloseAfterWorkers ==
  /\ chunkClosed =>
       /\ offsetClosed
       /\ \A w \in Workers : wpc[w] \in {"none", "exit"}
  /\ pc = "WaitCollector" => chunkClosed
  /\ (cpc = "done" /\ file = "closed") => chunkClosed
  /\ Returned => chunkClosed /\ cpc = "done"
  /\ (Returned /\ file = "closed") =>
       /\ chunkChan = <<>>
       /\ Range(arrived) = Sent
       /\ Len(arrived) = Cardinality(Sent)

\* chunkChan is closed, the caller waits for the collector and the
\* collector still has chunks to receive.
C16_Witness ==
  /\ pc = "WaitCollector" /\ chunkClosed /\ cpc = "recv"
  /\ Len(chunkChan) = 2 /\ arrived = <<2>>

\* The smallest member of a non-empty set of offsets.
Min(S) == CHOOSE m \in S : \A n \in S : m <= n

\* C17: when fetches failed and k is the smallest failed offset, the
\* collector never writes past k, and once it has stopped (output file
\* created) the output is the payloads of chunks 0 .. k-1 while every
\* fetched chunk above k is still in the buffer.
C17_StopsAtFirstGap ==
  failed # {} =>
    /\ nextOffset <= Min(failed)
    /\ (cpc = "done" /\ file = "closed") =>
         /\ nextOffset = Min(failed)
         /\ output = InOrder(outputMode, Min(failed))
         /\ DOMAIN chunkBuf =
              {o \in 0..(totalChunks - 1) : o > Min(failed) /\ o \notin failed}

\* Chunk 1 of three failed: chunk 0 is the whole output, chunk 2 is left
\* in the buffer.
C17_Witness ==
  /\ cpc = "done" /\ file = "closed" /\ totalChunks = 3 /\ failed = {1}
  /\ outputMode = "csv"
  /\ output = <<"header", "\n", "row0", "\n">>
  /\ DOMAIN chunkBuf = {2}

\* C18: an offset whose fetch failed is never sent on chunkChan, is not put
\* back on offsetChan and is not fetched again; the worker goes on with its
\* loop, leaving it only when offsetChan is closed and drained, so every
\* other offset is still fetched.
C18_FailedFetchDropped ==
  /\ \A o \in failed :
       /\ fetchCount[o] = 1
       /\ o \notin Range(offsetChan)
       /\ \A w \in Workers : woffset[w] # o
       /\ \A n \in 1..Len(chunkChan) : chunkChan[n].offset # o
       /\ o \notin Range(arrived)
       /\ o \notin DOMAIN chunkBuf
  /\ \A w \in Workers : wpc[w] = "exit" => offsetClosed /\ offsetChan = <<>>
  /\ (Returned /\ maxConnections >= 1) =>
       \A o \in 0..(totalChunks - 1) :
         fetchCount[o] = 1 /\ (o \in failed \/ o \in Range(arrived)
                               \/ file = "none")

\* The only worker failed on chunk 0 and then fetched chunks 1 and 2.
C18_Witness ==
  /\ Returned /\ maxConnections = 1 /\ totalChunks = 3
  /\ failed = {0} /\ arrived = <<1, 2>>

\* The workers with a fetch in flight.
InFlight == {w \in Workers : wpc[w] = "fetch"}

\* C19: the fetches in flight at the same time never outnumber
\* maxConnections.
C19_BoundedFetches == Cardinality(InFlight) <= maxConnections

\* Two workers, both with a fetch in flight, a third offset waiting.
C19_Witness ==
  /\ maxConnections = 2 /\ Cardinality(InFlight) = 2
  /\ offsetChan # <<>>

\* C20: a chunk is received at most once and written at most once, and a
\* written chunk is no longer in the buffer; when every fetch succeeded
\* (one worker or more, output file created) the collector stops with every
\* chunk written once, nextOffset = totalChunks and the buffer empty.
C20_WrittenOnce ==
  /\ \A m, n \in 1..Len(arrived) : arrived[m] = arrived[n] => m = n
  /\ chunksWritten = nextOffset
  /\ 0..(nextOffset - 1) \subseteq Range(arrived)
  /\ DOMAIN chunkBuf \subseteq Range(arrived)
  /\ DOMAIN chunkBuf \cap 0..(nextOffset - 1) = {}
  /\ (cpc = "done" /\ file = "closed" /\ failed = {} /\ maxConnections >= 1) =>
       /\ nextOffset = totalChunks
       /\ chunksWritten = totalChunks
       /\ chunkBuf = EmptyBuf

\* Three chunks arrived out of order, each was written once and the
\* buffer is empty again.
C20_Witness ==
  /\ cpc = "done" /\ file = "closed" /\ failed = {}
  /\ totalChunks = 3 /\ arrived = <<2, 0, 1>>
  /\ chunksWritten = 3 /\ chunkBuf = EmptyBuf

\* C21: after the collector has handled a received chunk the buffer does
\* not hold nextOffset and holds only offsets above it: the loop over the
\* buffer runs until the expected offset is missing.
C21_DrainExhausted ==
  /\ nextOffset \notin DOMAIN chunkBuf
  /\ \A k \in DOMAIN chunkBuf : k > nextOffset
  /\ Cardinality(DOMAIN chunkBuf) + chunksWritten = Len(arrived)

\* Chunks 1 and 2 were held back and both written by the loop that
\* followed the arrival of chunk 0.
C21_Witness ==
  /\ cpc = "recv" /\ arrived = <<1, 2, 0>>
  /\ nextOffset = 3 /\ chunkBuf = EmptyBuf

\* The records a request asks for, as first and last record number.
Records(q) == [first |-> q.offset, last |-> q.offset + q.count - 1]

\* C22: the request for chunk o carries count = chunkSize and
\* offset = o * chunkSize, so the record ranges of the requests are pairwise
\* disjoint and, once every chunk was requested, they are the consecutive
\* ranges that cover records 0 .. totalChunks * chunkSize - 1, which
\* include every record of the job.
C22_RequestRanges ==
  /\ \A q \in queries :
       /\ q.count = chunkSize
       /\ \E o \in 0..(totalChunks - 1) :
            q.offset = o * chunkSize /\ fetchCount[o] = 1
  /\ \A w \in Workers : wpc[w] = "send" =>
       [count |-> chunkSize, offset |-> woffset[w] * chunkSize] \in queries
  /\ \A o \in failed :
       [count |-> chunkSize, offset |-> o * chunkSize] \in queries
  /\ \A q1, q2 \in queries :
       q1 # q2 => \/ Records(q1).last < Records(q2).first
                  \/ Records(q2).last < Records(q1).first
  /\ (Returned /\ maxConnections >= 1) =>
       /\ Cardinality(queries) = totalChunks
       /\ \E q \in queries : Records(q).first = 0
       /\ \A q \in queries :
            \/ Records(q).last = totalChunks * chunkSize - 1
            \/ \E r \in queries : Records(r).first = Records(q).last + 1
       /\ jobStatus.ResultCount - 1 <= totalChunks * chunkSize - 1

\* Three chunks of a job of 20000 results were requested.
C22_Witness ==
  /\ Returned /\ jobStatus.ResultCount = 2 * chunkSize
  /\ queries = {[count |-> 10000, offset |-> 0],
                [count |-> 10000, offset |-> 10000],
                [count |-> 10000, offset |-> 20000]}

\* C23: past the gate downloadJobChunks never returns an error, whatever
\* fetches failed: with deleteWhenDone the run goes on to the delete
\* request, issued exactly once, and without it the run returns nil; the
\* only error a run past the gate can return is the one of the delete.
C23_NoChunkError ==
  totalChunks > 0 =>
    /\ ~Returned => result = NoResult
    /\ pc = "Delete" => deleteWhenDone /\ deleteCalls = 0 /\ result = NoResult
    /\ pc = "Done" =>
         /\ deleteCalls = (IF deleteWhenDone THEN 1 ELSE 0)
         /\ ~deleteWhenDone => result = Nil
         /\ result = (IF deleteErr THEN DeleteFailure ELSE Nil)

\* Chunk 0 of two failed, nothing was written, and the job was deleted
\* and success returned all the same.
C23_Witness ==
  /\ pc = "Done" /\ deleteWhenDone /\ totalChunks = 2
  /\ failed = {0} /\ chunksWritten = 0 /\ file = "closed"
  /\ deleteCalls = 1 /\ result = Nil

\* os.Create failed: the collector is past the call and there is no file.
CreateFailed == file = "none" /\ cpc \notin {"none", "create"}

\* C24: when os.Create fails the collector stops without receiving a
\* chunk and nothing is written; no worker is ever blocked on a full
\* chunkChan, the run still comes to its return, and the value returned is
\* nil (the failure of a delete request apart).
C24_CreateFailure ==
  /\ [](CreateFailed =>
          /\ cpc = "done"
          /\ arrived = <<>> /\ output = <<>>
          /\ nextOffset = 0 /\ chunksWritten = 0 /\ chunkBuf = EmptyBuf)
  /\ [](\A w \in Workers : wpc[w] = "send" => Len(chunkChan) < ChanCap)
  /\ []((CreateFailed /\ pc = "Done") =>
          result = (IF deleteErr THEN DeleteFailure ELSE Nil))
  /\ (CreateFailed ~> (pc = "Done" /\ WoundDown))

\* The file could not be created; three chunks were fetched and sent, none
\* was received, and the run returned nil.
C24_Witness ==
  /\ CreateFailed /\ pc = "Done" /\ result = Nil
  /\ totalChunks = 3 /\ failed = {} /\ Len(chunkChan) = 3
  /\ output = <<>>

\* C25: a job that passes the gate has at most 51 chunks, fewer than the
\* capacity of offsetChan and of chunkChan; neither channel ever holds more
\* than totalChunks entries, so the dispatch loop always finds room for the
\* next offset and a worker always finds room for its chunk.
C25_ChannelsNeverFull ==
  /\ totalChunks <= 51
  /\ 51 < ChanCap
  /\ Len(offsetChan) <= totalChunks
  /\ Len(chunkChan) <= totalChunks
  /\ (pc = "Dispatch" /\ i < totalChunks) => Len(offsetChan) < ChanCap
  /\ \A w \in Workers : wpc[w] = "send" => Len(chunkChan) < ChanCap

\* A job of 500000 results: all 51 chunks were sent while the collector
\* received none.
C25_Witness ==
  /\ jobStatus.ResultCount = ResultLimit /\ totalChunks = 51
  /\ Len(chunkChan) = 51 /\ cpc = "done" /\ Len(enqueued) = 51

\* C26: with a worker count of zero or below no worker is started and no
\* chunk is ever fetched; the offsets stay in offsetChan, both channels are
\* closed, the run comes to its return, and past the gate it returns nil
\* (the failure of a delete request apart) with nothing written.
C26_NoWorkers ==
  /\ [](maxConnections <= 0 =>
          /\ \A w \in Workers : wpc[w] = "none"
          /\ queries = {} /\ \A o \in DOMAIN fetchCount : fetchCount[o] = 0
          /\ chunkChan = <<>> /\ arrived = <<>> /\ output = <<>>)
  /\ []((maxConnections <= 0 /\ Returned) =>
          /\ offsetClosed /\ chunkClosed /\ cpc = "done"
          /\ Len(offsetChan) = totalChunks)
  /\ []((maxConnections <= 0 /\ pc = "Done" /\ totalChunks > 0) =>
          result = (IF deleteErr THEN DeleteFailure ELSE Nil))
  /\ (maxConnections <= 0 => <>(pc = "Done"))

\* A negative worker count: the three offsets are still in offsetChan, the
\* file was created and closed empty, and nil was returned.
C26_Witness ==
  /\ maxConnections = -1 /\ pc = "Done" /\ result = Nil
  /\ totalChunks = 3 /\ offsetChan = <<0, 1, 2>>
  /\ file = "closed" /\ output = <<>>

\* The error of a job that is not complete, and of a job above the limit.
IsNotComplete(r) ==
  r.kind = "error" /\ " is not complete (state: " \in Range(r.msg)
IsResultLimit(r) == r.kind = "error" /\ "job " \in Range(r.msg)
                    /\ " has more than " \in Range(r.msg)

\* C27: the gate reports the first condition that applies, in the order
\* not complete, failed, result limit: a status that is not done gives the
\* not-complete error whatever IsFailed and the result count are, a done
\* and failed status gives the job-failed error whatever the result count
\* is, and only a done, not failed status gives the result-limit error.
C27_GateOrder ==
  (pc # "Gate" /\ jobStatus # NoStatus) =>
    /\ ~jobStatus.IsDone =>
         /\ IsNotComplete(result)
         /\ ~IsJobFailed(result) /\ ~IsResultLimit(result)
    /\ (jobStatus.IsDone /\ jobStatus.IsFailed) =>
         /\ IsJobFailed(result)
         /\ ~IsNotComplete(result) /\ ~IsResultLimit(result)
    /\ (jobStatus.IsDone /\ ~jobStatus.IsFailed
        /\ jobStatus.ResultCount > 500000) =>
         /\ IsResultLimit(result)
         /\ ~IsNotComplete(result) /\ ~IsJobFailed(result)

\* A job that is not done, failed and above the limit was refused as not
\* complete.
C27_Witness ==
  /\ pc = "Done" /\ ~jobStatus.IsDone /\ jobStatus.IsFailed
  /\ jobStatus.ResultCount = 600000 /\ jobStatus.DispatchState = "FAILED"
  /\ IsNotComplete(result) /\ ~IsJobFailed(result)

\* The text is not a JSON object: empty, not opened or not closed by a
\* brace.
Undecodable(r) == r = <<>> \/ r[1] # "{" \/ r[Len(r)] # "}"

\* Records 1 .. k of a chunk as compact lines.
RECURSIVE RecordLines(_, _)
RecordLines(offset, k) ==
  IF k = 0 THEN <<>>
  ELSE RecordLines(offset, k - 1) \o <<RecAt(offset, k, FALSE), "\n">>

\* The ndjson lines of chunks 0 .. n-1, an answer that cannot be decoded
\* giving none.
RECURSIVE NdjsonInOrder(_)
NdjsonInOrder(n) ==
  IF n = 0 THEN <<>>
  ELSE NdjsonInOrder(n - 1) \o
       (IF Undecodable(upstream[n - 1]) \/ Len(upstream[n - 1]) <= 2
        THEN <<>>
        ELSE RecordLines(n - 1, Len(upstream[n - 1]) - 3))

\* C28: in ndjson mode an answer that cannot be decoded is returned to the
\* worker as an empty payload and sent on like any fetched chunk; the
\* collector writes nothing for it and moves past it, so the other chunks
\* are written, its records are missing and the run returns nil.
C28_UndecodableSkipped ==
  outputMode = "ndjson" =>
    /\ \A w \in Workers :
         (wpc[w] = "send" /\ Undecodable(upstream[woffset[w]])) =>
           wdata[w] = <<>> /\ woffset[w] \notin failed
    /\ (cpc = "done" /\ file = "closed" /\ failed = {}) =>
         /\ nextOffset = totalChunks /\ chunkBuf = EmptyBuf
         /\ Range(arrived) = 0..(totalChunks - 1)
         /\ output = NdjsonInOrder(totalChunks)
    /\ (pc = "Done" /\ totalChunks > 0) => result = Nil

\* Chunk 0 could not be decoded: the output holds the record of chunk 1
\* only and the run returned nil.
C28_Witness ==
  /\ outputMode = "ndjson" /\ pc = "Done" /\ result = Nil
  /\ upstream[0] = <<"garbage">>
  /\ upstream[1] = <<"{", "results", "{rec1.1}", "}">>
  /\ failed = {} /\ file = "closed" /\ arrived = <<0, 1>>
  /\ nextOffset = 2 /\ output = <<"{rec1.1}", "\n">>

CsvKept(offset) ==
  IF offset = 0 \/ "\n" \notin Range(upstream[offset])
  THEN upstream[offset]
  ELSE DropFirstLine(upstream[offset])

RECURSIVE CsvInOrder(_)
CsvInOrder(n) ==
  IF n = 0 THEN <<>> ELSE CsvInOrder(n - 1) \o CsvKept(n - 1)

====
